---- MODULE Spec2Model ----
(***************************************************************************)
(* pywp: the typed JSON (de)serialization framework (JsonHandler,          *)
(* JsonBase) and the generic item containers (ItemContainer, ItemList,     *)
(* ItemDict) of src/src/pywp/api_objects.py.                               *)
(*                                                                         *)
(* Python values are records with a kind field k and a payload whose       *)
(* field name depends on the kind, so that values of different kinds       *)
(* never compare equal (1 and "1" are different keys of a dict).           *)
(* A dict is the sequence of its <<key, value>> pairs in insertion order.  *)
(***************************************************************************)
EXTENDS Integers, Sequences, FiniteSets, TLC

VARIABLES
    container,      \* the class of the container built so far, "None" before
    items_by_id,    \* its three fields
    item_slug_map,
    item_indices,
    inserted,       \* history: the records inserted, in the order of insertion
    ret,            \* the last call on the container: its arguments and outcome
    arg,            \* the argument of the last call on the JsonHandler
    out,            \* that call and its outcome
    pc,             \* where Client.get_terms and its get_paginated stand
    params_page,    \* params['page'] of get_paginated
    has_more,       \* has_more of get_paginated
    response,       \* data, r of the last self.get of get_paginated
    requested,      \* history: the page numbers requested, in order
    yielded,        \* history: the pages yielded, in order
    headers         \* history: the X-WP-TotalPages headers read, in order

vars == <<container, items_by_id, item_slug_map, item_indices,
          inserted, ret, arg, out,
          pc, params_page, has_more, response, requested, yielded, headers>>

pvars == <<pc, params_page, has_more, response, requested, yielded, headers>>

cvars == <<container, items_by_id, item_slug_map, item_indices, inserted>>

----------------------------------------------------------------------------
(* Python values *)

None == [k |-> "None"]

PyInt(i) == [k |-> "int", i |-> i]

(* a str, as the components between its dots: "a.b" is <<"a", "b">> *)
Dotted(parts) == [k |-> "str", parts |-> parts]

PyStr(s) == Dotted(<<s>>)

(* a str holding a date and time written out by strftime: the fields that
   the format prints and the literal text that follows them *)
DateText(day, hour, minute, second, suffix) ==
    [k |-> "str", day |-> day, hour |-> hour, minute |-> minute,
     second |-> second, suffix |-> suffix]

IsDateText(v) == v.k = "str" /\ "suffix" \in DOMAIN v

IsStr(v) == v.k = "str"

(* datetime.timezone(timedelta(minutes=off)) *)
PyTz(off) == [k |-> "timezone", off |-> off]

UTC == PyTz(0)

(* datetime.datetime(...): the wall-clock fields and tzinfo (None: naive).
   day counts the days of the calendar, so that it carries year and month *)
PyDatetime(day, hour, minute, second, microsecond, tzinfo) ==
    [k |-> "datetime", day |-> day, hour |-> hour, minute |-> minute,
     second |-> second, microsecond |-> microsecond, tzinfo |-> tzinfo]

PyBool(b) == [k |-> "bool", b |-> b]

PyList(l) == [k |-> "list", l |-> l]

PyDict(items) == [k |-> "dict", items |-> items]

PyObj(cls, attrs) == [k |-> "obj", cls |-> cls, attrs |-> attrs]

PyEnum(cls, name) == [k |-> "enum", cls |-> cls, name |-> name]

(* a class object, as a value (the return value of str_to_cls) *)
PyClass(cls) == [k |-> "class", cls |-> cls]

(* a raised exception, as the outcome of a call *)
Raise(exc) == [k |-> "raise", exc |-> exc]

IsRaise(v) == v.k = "raise"

Exceptions == {"AssertionError", "AttributeError", "KeyError", "TypeError",
               "ValueError", "IndexError", "NotImplementedError", "HTTPError"}

IsDict(v) == v.k = "dict"

EmptyDict == PyDict(<<>>)

(* key in d *)
DictHas(d, key) == \E n \in 1..Len(d.items) : d.items[n][1] = key

(* d[key], for a key that is present *)
DictGet(d, key) ==
    LET n == CHOOSE n \in 1..Len(d.items) : d.items[n][1] = key
    IN  d.items[n][2]

(* d[key] = val: an existing key keeps its position, a new key goes last *)
DictSet(d, key, val) ==
    IF DictHas(d, key)
    THEN PyDict([n \in 1..Len(d.items) |->
                   IF d.items[n][1] = key THEN <<key, val>> ELSE d.items[n]])
    ELSE PyDict(Append(d.items, <<key, val>>))

(* d.pop(key), the dict that is left *)
DictDel(d, key) ==
    PyDict(SelectSeq(d.items, LAMBDA p : p[1] # key))

DictKeys(d) == [n \in 1..Len(d.items) |-> d.items[n][1]]

DictValues(d) == [n \in 1..Len(d.items) |-> d.items[n][2]]

DictKeySet(d) == {d.items[n][1] : n \in 1..Len(d.items)}

DictLen(d) == Len(d.items)

SeqToSet(s) == {s[n] : n \in 1..Len(s)}

Last(s) == s[Len(s)]

----------------------------------------------------------------------------
(* The classes of api_objects.py *)

Module == <<"pywp", "api_objects">>

EnumClasses == {"Status", "MediaType"}

(* direct subclasses, in definition order (cls.__subclasses__()) *)
Subclasses(cls) ==
    CASE cls = "JsonBase" -> <<"HasLinks", "ItemContainer", "PostTaxonomyRel",
                               "ImageFile", "MediaDetails">>
      [] cls = "HasLinks" -> <<"WpItem", "Taxonomy", "PublishItemBase", "Author">>
      [] cls = "PublishItemBase" -> <<"Post", "Media">>
      [] cls = "ItemContainer" -> <<"ItemList", "ItemDict">>
      [] cls = "ItemList" -> <<"WpItems", "PostList">>
      [] cls = "ItemDict" -> <<"Taxonomies">>
      [] OTHER -> <<>>

RECURSIVE _iter_subclasses(_)
RECURSIVE IterAll(_)

(* subcls._iter_subclasses() of each class of a sequence, chained *)
IterAll(classes) ==
    IF classes = <<>> THEN <<>>
    ELSE _iter_subclasses(Head(classes)) \o IterAll(Tail(classes))

_iter_subclasses(cls) == <<cls>> \o IterAll(Subclasses(cls))

JsonBaseClasses == SeqToSet(_iter_subclasses("JsonBase"))

(* type(cls): the metaclass of a class object *)
TypeOf(cls) == IF cls \in EnumClasses THEN "EnumType" ELSE "type"

(* cls.__module__, as the components of the dotted name *)
ModuleOf(cls) ==
    CASE cls = "datetime" -> <<"datetime">>
      [] cls = "EnumType" -> <<"enum">>
      [] OTHER -> Module

(* the members of the enums, in definition order *)
Members(cls) ==
    CASE cls = "Status" -> <<"publish", "future", "draft", "pending",
                             "private", "inherit">>
      [] cls = "MediaType" -> <<"image", "file">>
      [] OTHER -> <<>>

(* dataclasses.fields(cls): the field names, base classes first *)
Fields(cls) ==
    LET links == <<"_links", "_embedded">>
        dates == <<"pub_date", "last_modified">>
        cont == <<"items_by_id", "item_slug_map", "item_indices">>
        publish == links \o dates \o <<"id", "slug", "status", "type", "link",
                                       "title", "author_id", "acf">>
    IN  CASE cls = "HasLinks" -> links
          [] cls = "WpItem" -> links \o <<"id", "count", "description", "link",
                 "name", "slug", "taxonomy", "parent", "meta", "acf",
                 "yoast_head", "yoast_head_json">>
          [] cls = "Taxonomy" -> links \o <<"name", "description", "slug",
                 "types", "hierarchical", "rest_base", "rest_namespace">>
          [] cls \in {"ItemContainer", "ItemList", "ItemDict", "WpItems",
                      "PostList", "Taxonomies"} -> cont
          [] cls = "PostTaxonomyRel" -> <<"taxonomy", "term_id", "term_slug">>
          [] cls = "PublishItemBase" -> publish
          [] cls = "Post" -> publish \o <<"taxonomy_names", "taxonomy_rels">>
          [] cls = "Media" -> publish \o <<"media_type", "mime_type",
                 "media_details", "source_url">>
          [] cls = "Author" -> links \o <<"id", "name", "url", "description",
                 "link", "slug", "acf">>
          [] cls = "ImageFile" -> <<"size_name", "width", "height", "file",
                 "mime_type", "source_url">>
          [] cls = "MediaDetails" -> <<"original", "sizes">>
          [] OTHER -> <<>>

(* issubclass(cls, base) *)
IsSubclass(cls, base) == cls \in SeqToSet(_iter_subclasses(base))

(* isinstance(v, base) for a dataclass of api_objects.py *)
IsInstance(v, base) ==
    /\ v.k = "obj"
    /\ IsSubclass(v.cls, base)

(* isinstance(v, typ), for the enums and datetime.datetime as well *)
IsA(v, typ) ==
    CASE typ = "datetime" -> v.k = "datetime"
      [] typ \in EnumClasses -> v.k = "enum" /\ v.cls = typ
      [] OTHER -> IsInstance(v, typ)

----------------------------------------------------------------------------
(* datetime *)

MinutesPerDay == 1440

(* minutes since day 0 00:00 UTC of an aware datetime, seconds left aside *)
UtcMinutes(dt) ==
    (dt.day * MinutesPerDay + dt.hour * 60 + dt.minute) - dt.tzinfo.off

(* astimezone taken for replace: the fields are kept and called UTC *)
AsTimezoneUTC_relabel(dt) == [dt EXCEPT !.tzinfo = PyTz(0)]

(* o.astimezone(UTC), for an aware o *)
AsTimezoneUTC(dt) ==
    LET m == UtcMinutes(dt)
    IN  PyDatetime(m \div MinutesPerDay, (m % MinutesPerDay) \div 60, m % 60,
                   dt.second, dt.microsecond, UTC)

(* o.strftime(fmt): neither microsecond nor tzinfo is printed *)
Strftime(dt, suffix) ==
    DateText(dt.day, dt.hour, dt.minute, dt.second, suffix)

(* datetime.datetime.strptime(s, fmt): a naive datetime *)
Strptime(s, suffix) ==
    IF IsDateText(s) /\ s.suffix = suffix
    THEN PyDatetime(s.day, s.hour, s.minute, s.second, 0, None)
    ELSE Raise("ValueError")

(* datetime.datetime.replace(dt, tzinfo=UTC) *)
ReplaceTzUTC(dt) == [dt EXCEPT !.tzinfo = UTC]

parse_wp_dt(dt_str) ==
    LET dt == Strptime(dt_str, "")
    IN  IF IsRaise(dt) THEN dt ELSE ReplaceTzUTC(dt)

(* a == b for two datetimes: aware ones are equal when they are the same
   instant, naive ones when their fields are, and an aware one never equals
   a naive one *)
DatetimeEq(a, b) ==
    IF a.tzinfo = None \/ b.tzinfo = None
    THEN a = b
    ELSE /\ UtcMinutes(a) = UtcMinutes(b)
         /\ a.second = b.second
         /\ a.microsecond = b.microsecond

----------------------------------------------------------------------------
(* JsonHandler: the type registry *)

dt_fmt == "Z"

(* o.__class__ of an instance *)
ClassOf(v) ==
    CASE v.k \in {"obj", "enum"} -> v.cls
      [] v.k = "datetime" -> "datetime"
      [] v.k = "class" -> TypeOf(v.cls)

(* cls_to_str(cls), for a class object or an instance *)
cls_to_str(x) ==
    LET cls == IF x.k = "class" /\ TypeOf(x.cls) = "type" THEN x.cls
               ELSE ClassOf(x)
    IN  Dotted(ModuleOf(cls) \o <<cls>>)

iter_handled_classes ==
    <<"Status", "MediaType", "datetime">> \o _iter_subclasses("JsonBase")

(* str_to_cls(s): the first handled class whose identifier is s, or None *)
str_to_cls(s) ==
    LET classes == iter_handled_classes
        hits == {n \in 1..Len(classes) : cls_to_str(PyClass(classes[n])) = s}
    IN  IF hits = {} THEN None
        ELSE PyClass(classes[CHOOSE n \in hits : \A m \in hits : n <= m])

----------------------------------------------------------------------------
(* JsonBase *)

FieldKeys(cls) == {PyStr(Fields(cls)[n]) : n \in 1..Len(Fields(cls))}

(* the dataclass constructor, called with the keys of data as keyword
   arguments; no field has a default *)
New(cls, data) ==
    IF DictKeySet(data) = FieldKeys(cls)
    THEN PyObj(cls, [f \in SeqToSet(Fields(cls)) |-> DictGet(data, PyStr(f))])
    ELSE Raise("TypeError")

(* cls._filter_unused_data(data) *)
_filter_unused_data(cls, data) ==
    IF \A key \in FieldKeys(cls) : DictHas(data, key)
    THEN PyDict([n \in 1..Len(Fields(cls)) |->
                   <<PyStr(Fields(cls)[n]), DictGet(data, PyStr(Fields(cls)[n]))>>])
    ELSE Raise("KeyError")

(* JsonBase.create(data) *)
JsonBase_create(cls, data) ==
    LET filtered == _filter_unused_data(cls, data)
    IN  IF IsRaise(filtered) THEN filtered ELSE New(cls, filtered)

(* HasLinks.create(data): data.setdefault('_embedded', {}) *)
HasLinks_create(cls, data) ==
    JsonBase_create(cls, IF DictHas(data, PyStr("_embedded")) THEN data
                         ELSE DictSet(data, PyStr("_embedded"), EmptyDict))

(* o._serialize() *)
_serialize(o) ==
    PyDict([n \in 1..Len(Fields(o.cls)) |->
              <<PyStr(Fields(o.cls)[n]), o.attrs[Fields(o.cls)[n]]>>])

(* the assertion made on the whole identifier instead *)
TagMatches_exact(cls, clsname) ==
    /\ "parts" \in DOMAIN clsname
    /\ clsname.parts = Module \o <<cls>>

(* the assertion of JsonBase._deserialize on the popped type tag:
   clsname.split('.')[-1] == cls.__qualname__ *)
TagMatches(cls, clsname) ==
    /\ "parts" \in DOMAIN clsname
    /\ Last(clsname.parts) = cls

(* JsonBase._deserialize(data, decoder) *)
JsonBase_deserialize(cls, data) ==
    IF ~DictHas(data, PyStr("__class__")) THEN Raise("KeyError")
    ELSE LET clsname == DictGet(data, PyStr("__class__"))
         IN  IF ~IsStr(clsname) THEN Raise("AttributeError")
             ELSE IF ~TagMatches(cls, clsname) THEN Raise("AssertionError")
             ELSE New(cls, DictDel(data, PyStr("__class__")))

----------------------------------------------------------------------------
(* JsonHandler: encode and decode *)

(* the value of an enum member: enum.auto() counts from 1 *)
EnumValue(e) ==
    CHOOSE n \in 1..Len(Members(e.cls)) : Members(e.cls)[n] = e.name

(* JsonHandler.encode(o); None for a value it does not handle *)
encode(o) ==
    CASE IsInstance(o, "JsonBase") ->
           DictSet(_serialize(o), PyStr("__class__"), cls_to_str(o))
      [] o.k = "enum" ->
           PyDict(<< <<PyStr("__class__"), cls_to_str(o)>>,
                     <<PyStr("name"), PyStr(o.name)>>,
                     <<PyStr("value"), PyInt(EnumValue(o))>> >>)
      [] o.k = "datetime" ->
           IF o.tzinfo = None THEN Raise("AssertionError")
           ELSE PyDict(<< <<PyStr("__class__"), Dotted(<<"datetime", "datetime">>)>>,
                          <<PyStr("value"), Strftime(AsTimezoneUTC(o), dt_fmt)>> >>)
      [] OTHER -> None

(* EnumMixin.create(value) *)
EnumMixin_create(cls, value) ==
    IF IsStr(value)
    THEN IF "parts" \in DOMAIN value /\ Len(value.parts) = 1
            /\ value.parts[1] \in SeqToSet(Members(cls))
         THEN PyEnum(cls, value.parts[1])
         ELSE Raise("AttributeError")
    ELSE value

(* '__class__' in d: a key test on a dict, a search in a list or a str,
   a TypeError on a value that is no container *)
HasClassKey(d) ==
    CASE d.k = "dict" -> DictHas(d, PyStr("__class__"))
      [] d.k = "list" -> \E n \in 1..Len(d.l) : d.l[n] = PyStr("__class__")
      [] OTHER -> FALSE

SupportsIn(d) == d.k \in {"dict", "list", "str"}

RECURSIVE decode(_)
RECURSIVE DecodeField(_, _)
RECURSIVE DecodeFieldUnless(_, _, _)
RECURSIVE ItemContainer_deserialize(_, _)
RECURSIVE DecodeItems(_, _)
RECURSIVE HasDates_deserialize(_, _)
RECURSIVE PublishItemBase_deserialize(_, _)
RECURSIVE Post_deserialize(_, _)
RECURSIVE MediaDetails_deserialize(_, _)
RECURSIVE DecodeSizes(_, _)
RECURSIVE Media_deserialize(_, _)
RECURSIVE _deserialize(_, _)

(* data[key] = decoder.decode(data[key]): the dict that results, or what
   was raised *)
DecodeField(data, key) ==
    IF ~DictHas(data, PyStr(key)) THEN Raise("KeyError")
    ELSE LET v == decode(DictGet(data, PyStr(key)))
         IN  IF IsRaise(v) THEN v ELSE DictSet(data, PyStr(key), v)

(* the same, skipped when isinstance(data[key], typ) *)
DecodeFieldUnless(data, key, typ) ==
    IF ~DictHas(data, PyStr(key)) THEN Raise("KeyError")
    ELSE IF IsA(DictGet(data, PyStr(key)), typ) THEN data
    ELSE DecodeField(data, key)

(* the loop of ItemContainer._deserialize over by_id.items() *)
DecodeItems(items, acc) ==
    IF items = <<>> THEN acc
    ELSE LET key == Head(items)[1]
             val == Head(items)[2]
             obj == IF IsInstance(val, "JsonBase") THEN val ELSE decode(val)
         IN  IF IsRaise(obj) THEN obj
             ELSE IF ~IsInstance(obj, "JsonBase") THEN Raise("AssertionError")
             ELSE DecodeItems(Tail(items), DictSet(acc, key, obj))

ItemContainer_deserialize(cls, data) ==
    IF ~DictHas(data, PyStr("items_by_id")) THEN Raise("KeyError")
    ELSE LET by_id == DictGet(data, PyStr("items_by_id"))
         IN  IF ~IsDict(by_id) THEN Raise("AttributeError")
             ELSE LET decoded == DecodeItems(by_id.items, EmptyDict)
                  IN  IF IsRaise(decoded) THEN decoded
                      ELSE JsonBase_deserialize(
                               cls, DictSet(data, PyStr("items_by_id"), decoded))

HasDates_deserialize(cls, data) ==
    LET d1 == DecodeFieldUnless(data, "pub_date", "datetime")
    IN  IF IsRaise(d1) THEN d1
        ELSE LET d2 == DecodeFieldUnless(d1, "last_modified", "datetime")
             IN  IF IsRaise(d2) THEN d2 ELSE JsonBase_deserialize(cls, d2)

PublishItemBase_deserialize(cls, data) ==
    LET d1 == DecodeField(data, "status")
    IN  IF IsRaise(d1) THEN d1 ELSE HasDates_deserialize(cls, d1)

Post_deserialize(cls, data) ==
    LET d1 == DecodeField(data, "taxonomy_rels")
    IN  IF IsRaise(d1) THEN d1 ELSE PublishItemBase_deserialize(cls, d1)

(* the loop of MediaDetails._deserialize over data['sizes'].items() *)
DecodeSizes(items, acc) ==
    IF items = <<>> THEN acc
    ELSE LET key == Head(items)[1]
             val == Head(items)[2]
             obj == IF IsInstance(val, "ImageFile") THEN val ELSE decode(val)
         IN  IF IsRaise(obj) THEN obj
             ELSE DecodeSizes(Tail(items), DictSet(acc, key, obj))

MediaDetails_deserialize(cls, data) ==
    LET d1 == DecodeFieldUnless(data, "original", "ImageFile")
    IN  IF IsRaise(d1) THEN d1
        ELSE IF ~DictHas(d1, PyStr("sizes")) THEN Raise("KeyError")
        ELSE IF ~IsDict(DictGet(d1, PyStr("sizes"))) THEN Raise("AttributeError")
        ELSE LET sizes == DecodeSizes(DictGet(d1, PyStr("sizes")).items, EmptyDict)
             IN  IF IsRaise(sizes) THEN sizes
                 ELSE JsonBase_deserialize(cls, DictSet(d1, PyStr("sizes"), sizes))

(* decoder.decoder(details): JsonHandler has no attribute decoder *)
Media_deserialize(cls, data) ==
    LET d1 == DecodeFieldUnless(data, "media_type", "MediaType")
    IN  IF IsRaise(d1) THEN d1
        ELSE IF ~DictHas(d1, PyStr("media_details")) THEN Raise("KeyError")
        ELSE IF ~IsInstance(DictGet(d1, PyStr("media_details")), "MediaDetails")
             THEN Raise("AttributeError")
        ELSE PublishItemBase_deserialize(cls, d1)

(* cls._deserialize(data, decoder): the method the class inherits *)
_deserialize(cls, data) ==
    CASE cls = "Post" -> Post_deserialize(cls, data)
      [] cls = "Media" -> Media_deserialize(cls, data)
      [] cls = "PublishItemBase" -> PublishItemBase_deserialize(cls, data)
      [] cls = "MediaDetails" -> MediaDetails_deserialize(cls, data)
      [] IsSubclass(cls, "ItemContainer") -> ItemContainer_deserialize(cls, data)
      [] OTHER -> JsonBase_deserialize(cls, data)

(* decode with a tag that names no class treated as an error *)
decode_strict(d) ==
    IF ~SupportsIn(d) THEN Raise("TypeError")
    ELSE IF ~HasClassKey(d) THEN d
    ELSE IF ~IsDict(d) THEN Raise("TypeError")
    ELSE LET cls == str_to_cls(DictGet(d, PyStr("__class__")))
         IN  IF cls = None THEN Raise("KeyError")
             ELSE IF cls.cls = "datetime"
             THEN IF ~DictHas(d, PyStr("value")) THEN Raise("KeyError")
                  ELSE LET dt == Strptime(DictGet(d, PyStr("value")), dt_fmt)
                       IN  IF IsRaise(dt) THEN dt ELSE ReplaceTzUTC(dt)
             ELSE IF cls.cls \in EnumClasses
             THEN IF ~DictHas(d, PyStr("name")) THEN Raise("KeyError")
                  ELSE EnumMixin_create(cls.cls, DictGet(d, PyStr("name")))
             ELSE _deserialize(cls.cls, d)

(* JsonHandler.decode(d) *)
decode(d) ==
    IF ~SupportsIn(d) THEN Raise("TypeError")
    ELSE IF ~HasClassKey(d) THEN d
    ELSE IF ~IsDict(d) THEN Raise("TypeError")
    ELSE LET cls == str_to_cls(DictGet(d, PyStr("__class__")))
         IN  IF cls = None THEN d
             ELSE IF cls.cls = "datetime"
             THEN IF ~DictHas(d, PyStr("value")) THEN Raise("KeyError")
                  ELSE LET dt == Strptime(DictGet(d, PyStr("value")), dt_fmt)
                       IN  IF IsRaise(dt) THEN dt ELSE ReplaceTzUTC(dt)
             ELSE IF cls.cls \in EnumClasses
             THEN IF ~DictHas(d, PyStr("name")) THEN Raise("KeyError")
                  ELSE EnumMixin_create(cls.cls, DictGet(d, PyStr("name")))
             ELSE _deserialize(cls.cls, d)

----------------------------------------------------------------------------
(* to_json and load_from_json: jsonfactory.dumps is json.dumps with
   JsonHandler.encode for the values json cannot write, jsonfactory.loads is
   json.loads with JsonHandler.decode as the hook called on every object,
   innermost first.  The text is modelled by the JSON value it denotes. *)

(* the key of a JSON object: json.dumps writes every key as a string *)
JsonKey(key) ==
    CASE key.k = "str" -> key
      [] key.k = "int" -> PyStr(ToString(key.i))
      [] key.k = "bool" -> PyStr(IF key.b THEN "true" ELSE "false")
      [] key.k = "None" -> PyStr("null")
      [] OTHER -> Raise("TypeError")

RECURSIVE JsonDump(_)
RECURSIVE JsonDumpList(_)
RECURSIVE JsonDumpItems(_)

JsonDumpList(l) ==
    IF l = <<>> THEN PyList(<<>>)
    ELSE LET v == JsonDump(Head(l))
         IN  IF IsRaise(v) THEN v
             ELSE LET rest == JsonDumpList(Tail(l))
                  IN  IF IsRaise(rest) THEN rest
                      ELSE PyList(<<v>> \o rest.l)

(* keys are converted as they are written; two keys may become one text *)
JsonDumpItems(items) ==
    IF items = <<>> THEN EmptyDict
    ELSE LET key == JsonKey(Head(items)[1])
             v == JsonDump(Head(items)[2])
         IN  IF IsRaise(key) THEN key
             ELSE IF IsRaise(v) THEN v
             ELSE LET rest == JsonDumpItems(Tail(items))
                  IN  IF IsRaise(rest) THEN rest
                      ELSE PyDict(<< <<key, v>> >> \o rest.items)

(* the JSON value json.dumps writes for o *)
JsonDump(o) ==
    CASE o.k \in {"None", "int", "bool", "str"} -> o
      [] o.k = "list" -> JsonDumpList(o.l)
      [] o.k = "dict" -> JsonDumpItems(o.items)
      [] OTHER ->
           LET d == encode(o)
           IN  IF d = None THEN Raise("TypeError")
               ELSE IF IsRaise(d) THEN d
               ELSE JsonDump(d)

RECURSIVE JsonLoad(_)
RECURSIVE JsonLoadList(_)
RECURSIVE JsonLoadItems(_, _)

JsonLoadList(l) ==
    IF l = <<>> THEN PyList(<<>>)
    ELSE LET v == JsonLoad(Head(l))
         IN  IF IsRaise(v) THEN v
             ELSE LET rest == JsonLoadList(Tail(l))
                  IN  IF IsRaise(rest) THEN rest
                      ELSE PyList(<<v>> \o rest.l)

(* a key written twice keeps its last value *)
JsonLoadItems(items, acc) ==
    IF items = <<>> THEN acc
    ELSE LET v == JsonLoad(Head(items)[2])
         IN  IF IsRaise(v) THEN v
             ELSE JsonLoadItems(Tail(items), DictSet(acc, Head(items)[1], v))

(* the value json.loads builds from a JSON value *)
JsonLoad(j) ==
    CASE j.k = "list" -> JsonLoadList(j.l)
      [] j.k = "dict" ->
           LET d == JsonLoadItems(j.items, EmptyDict)
           IN  IF IsRaise(d) THEN d ELSE decode(d)
      [] OTHER -> j

(* o.to_json() *)
to_json(o) == JsonDump(o)

(* load_from_json, on the text that to_json wrote *)
load_from_json(text) == JsonLoad(text)

----------------------------------------------------------------------------
(* ItemContainer, ItemList, ItemDict *)

(* cls.item_class *)
item_class(cls) ==
    CASE cls = "WpItems" -> "WpItem"
      [] cls = "Taxonomies" -> "Taxonomy"
      [] cls = "PostList" -> "Post"

(* cls.create_child(data): WpItem and Taxonomy inherit HasLinks.create *)
create_child(cls, data) == HasLinks_create(item_class(cls), data)

(* cls._id_for_item(item) *)
_id_for_item(cls, item) ==
    CASE cls \in {"WpItems", "PostList"} -> item.attrs["id"]
      [] cls = "Taxonomies" -> item.attrs["slug"]
      [] OTHER -> Raise("NotImplementedError")

(* the container object made of its three fields *)
Container(cls, by_id, slug_map, indices) ==
    PyObj(cls, [items_by_id |-> by_id, item_slug_map |-> slug_map,
                item_indices |-> indices])

RECURSIVE CreateLoop(_, _, _)

(* the loop of ItemContainer.create over data: kw, or what was raised *)
CreateLoop(cls, data, kw) ==
    IF data = <<>> THEN kw
    ELSE LET item == create_child(cls, Head(data))
         IN  IF IsRaise(item) THEN item
             ELSE LET item_id == _id_for_item(cls, item)
                      by_id == DictSet(DictGet(kw, PyStr("items_by_id")), item_id, item)
                      slug_map == DictGet(kw, PyStr("item_slug_map"))
                      indices == DictGet(kw, PyStr("item_indices"))
                  IN  IF DictHas(slug_map, item.attrs["slug"])
                      THEN Raise("AssertionError")
                      ELSE CreateLoop(cls, Tail(data), PyDict(<<
                             <<PyStr("items_by_id"), by_id>>,
                             <<PyStr("item_slug_map"),
                               DictSet(slug_map, item.attrs["slug"], item_id)>>,
                             <<PyStr("item_indices"),
                               PyList(Append(indices.l, item_id))>> >>))

(* ItemContainer.create(data) *)
ItemContainer_create(cls, data) ==
    LET kw == CreateLoop(cls, data, PyDict(<<
                  <<PyStr("items_by_id"), EmptyDict>>,
                  <<PyStr("item_slug_map"), EmptyDict>>,
                  <<PyStr("item_indices"), PyList(<<>>)>> >>))
    IN  IF IsRaise(kw) THEN kw ELSE JsonBase_create(cls, kw)

(* append with the record stored before the slug is checked, the order the
   loop of create uses *)
append_store_first(self, child) ==
    LET c == IF IsInstance(child, item_class(self.cls)) THEN child
             ELSE create_child(self.cls, child)
    IN  IF IsRaise(c) THEN [self |-> self, result |-> c]
        ELSE LET item_id == _id_for_item(self.cls, c)
                 stored == Container(self.cls,
                               DictSet(self.attrs.items_by_id, item_id, c),
                               self.attrs.item_slug_map, self.attrs.item_indices)
             IN  IF DictHas(self.attrs.item_slug_map, c.attrs["slug"])
                 THEN [self |-> stored, result |-> Raise("AssertionError")]
                 ELSE [self |-> Container(self.cls,
                           stored.attrs.items_by_id,
                           DictSet(self.attrs.item_slug_map, c.attrs["slug"], item_id),
                           PyList(Append(self.attrs.item_indices.l, item_id))),
                       result |-> c]

(* self.append(child): the container afterwards and what the call returned
   or raised *)
append(self, child) ==
    LET c == IF IsInstance(child, item_class(self.cls)) THEN child
             ELSE create_child(self.cls, child)
    IN  IF IsRaise(c) THEN [self |-> self, result |-> c]
        ELSE LET item_id == _id_for_item(self.cls, c)
             IN  IF DictHas(self.attrs.item_slug_map, c.attrs["slug"])
                 THEN [self |-> self, result |-> Raise("AssertionError")]
                 ELSE [self |-> Container(self.cls,
                           DictSet(self.attrs.items_by_id, item_id, c),
                           DictSet(self.attrs.item_slug_map, c.attrs["slug"], item_id),
                           PyList(Append(self.attrs.item_indices.l, item_id))),
                       result |-> c]

RECURSIVE extend(_, _)

(* self.extend(children): stops at the first append that raises *)
extend(self, children) ==
    IF children = <<>> THEN [self |-> self, result |-> None]
    ELSE LET r == append(self, Head(children))
         IN  IF IsRaise(r.result) THEN r ELSE extend(r.self, Tail(children))

(* d.get(key, default) *)
DictGetDefault(d, key, default) ==
    IF DictHas(d, key) THEN DictGet(d, key) ELSE default

(* d[key] *)
DictIndex(d, key) ==
    IF DictHas(d, key) THEN DictGet(d, key) ELSE Raise("KeyError")

(* l[ix] for an int ix: negative positions count from the end *)
ListIndex(l, ix) ==
    IF ix >= 0 /\ ix < Len(l) THEN l[ix + 1]
    ELSE IF ix < 0 /\ -ix <= Len(l) THEN l[Len(l) + ix + 1]
    ELSE Raise("IndexError")

Min(a, b) == IF a <= b THEN a ELSE b

(* l[start:stop] for 0 <= start and 0 <= stop: the bounds are clipped *)
ListSlice(l, start, stop) ==
    LET lo == Min(start, Len(l))
        hi == Min(stop, Len(l))
    IN  IF lo >= hi THEN <<>> ELSE SubSeq(l, lo + 1, hi)

get_by_id(self, id_, default) ==
    DictGetDefault(self.attrs.items_by_id, id_, default)

(* get_by_slug with the slug map indexed instead of asked *)
get_by_slug_indexed(self, slug, default) ==
    LET id_ == DictIndex(self.attrs.item_slug_map, slug)
    IN  IF IsRaise(id_) THEN id_ ELSE get_by_id(self, id_, default)

get_by_slug(self, slug, default) ==
    LET id_ == DictGetDefault(self.attrs.item_slug_map, slug, None)
    IN  IF id_ = None THEN default ELSE get_by_id(self, id_, default)

get_by_index(self, ix) ==
    LET id_ == ListIndex(self.attrs.item_indices.l, ix)
    IN  IF IsRaise(id_) THEN id_ ELSE DictIndex(self.attrs.items_by_id, id_)

(* len(self) *)
__len__(self) == DictLen(self.attrs.items_by_id)

(* [self.items_by_id[id_] for id_ in ids] *)
ItemsOf(self, ids) ==
    IF \E n \in 1..Len(ids) : ~DictHas(self.attrs.items_by_id, ids[n])
    THEN Raise("KeyError")
    ELSE PyList([n \in 1..Len(ids) |-> DictGet(self.attrs.items_by_id, ids[n])])

(* ItemList.__getitem__(key), for an int or a slice *)
ItemList_getitem(self, key) ==
    IF key.k = "slice"
    THEN ItemsOf(self, ListSlice(self.attrs.item_indices.l, key.start, key.stop))
    ELSE LET ids == ListIndex(self.attrs.item_indices.l, key.i)
         IN  IF IsRaise(ids) THEN ids
             ELSE DictIndex(self.attrs.items_by_id, ids)

(* list(ItemList.__iter__()) *)
ItemList_iter(self) == ItemsOf(self, self.attrs.item_indices.l)

(* a __getitem__ that is tolerant of a missing key, as get_by_id is *)
ItemDict_getitem_tolerant(self, key) ==
    DictGetDefault(self.attrs.items_by_id, key, None)

(* ItemDict.__getitem__(key) *)
ItemDict_getitem(self, key) == DictIndex(self.attrs.items_by_id, key)

(* ItemDict.keys(), values(), items(), as lists *)
ItemDict_keys(self) == PyList(DictKeys(self.attrs.items_by_id))

ItemDict_values(self) == PyList(DictValues(self.attrs.items_by_id))

ItemDict_items(self) == PyList(self.attrs.items_by_id.items)

(* list(ItemDict.__iter__()) *)
ItemDict_iter(self) == ItemDict_values(self)

----------------------------------------------------------------------------
(* The containers: the inputs *)

MaxItems == 3

MaxPage == 2

Ids == {1, 2}

Slugs == {"a", "b", "c"}

ContainerClasses == {"WpItems", "Taxonomies"}

(* one term as the REST API returns it: the fields of WpItem, no _embedded,
   and a key WpItem does not declare *)
RawWpItem(id, slug) ==
    PyDict(<< <<PyStr("id"), PyInt(id)>>,
              <<PyStr("count"), PyInt(0)>>,
              <<PyStr("description"), PyStr("")>>,
              <<PyStr("link"), PyStr("link")>>,
              <<PyStr("name"), PyStr("name")>>,
              <<PyStr("slug"), PyStr(slug)>>,
              <<PyStr("taxonomy"), PyStr("category")>>,
              <<PyStr("parent"), PyInt(0)>>,
              <<PyStr("meta"), PyList(<<>>)>>,
              <<PyStr("acf"), PyList(<<>>)>>,
              <<PyStr("yoast_head"), EmptyDict>>,
              <<PyStr("yoast_head_json"), EmptyDict>>,
              <<PyStr("undeclared"), PyInt(0)>>,
              <<PyStr("_links"), EmptyDict>> >>)

(* one taxonomy as the REST API returns it *)
RawTaxonomy(slug) ==
    PyDict(<< <<PyStr("name"), PyStr("name")>>,
              <<PyStr("slug"), PyStr(slug)>>,
              <<PyStr("description"), PyStr("")>>,
              <<PyStr("types"), PyList(<<PyStr("post")>>)>>,
              <<PyStr("hierarchical"), PyBool(FALSE)>>,
              <<PyStr("rest_base"), PyStr(slug)>>,
              <<PyStr("rest_namespace"), Dotted(<<"wp/v2">>)>>,
              <<PyStr("undeclared"), PyInt(0)>>,
              <<PyStr("_links"), EmptyDict>> >>)

(* the raw items a page of the class's endpoint may hold *)
RawItems(cls) ==
    IF cls = "Taxonomies" THEN {RawTaxonomy(s) : s \in Slugs}
    ELSE {RawWpItem(i, s) : i \in Ids, s \in Slugs}

(* what append accepts: raw data or a record of the item class *)
Children(cls) == RawItems(cls) \cup {create_child(cls, d) : d \in RawItems(cls)}

SeqsUpTo(S, n) == UNION {[1..m -> S] : m \in 0..n}

(* the record a child is inserted as *)
AsItem(cls, child) ==
    IF IsInstance(child, item_class(cls)) THEN child ELSE create_child(cls, child)

(* the keys looked up: of the type of the class's identity keys, one of
   them never inserted *)
LookupKeys(cls) ==
    IF cls = "Taxonomies" THEN {PyStr(s) : s \in Slugs \cup {"missing"}}
    ELSE {PyInt(i) : i \in Ids \cup {0}}

LookupSlugs == {PyStr(s) : s \in Slugs \cup {"missing"}}

Defaults == {None, PyStr("default")}

PySlice(start, stop) == [k |-> "slice", start |-> start, stop |-> stop]

Positions == {PyInt(i) : i \in -1..MaxItems}
                 \cup {PySlice(a, b) : a \in 0..MaxItems, b \in 1..MaxItems}

----------------------------------------------------------------------------
(* The containers: the state machine *)

Self == Container(container, items_by_id, item_slug_map, item_indices)

Built == container # "None"

Size == IF Built THEN Len(item_indices.l) ELSE 0

Call(op, a, b, result) == [op |-> op, a |-> a, b |-> b, result |-> result]

NoCall == Call("none", None, None, None)

Becomes(self) ==
    /\ container' = self.cls
    /\ items_by_id' = self.attrs.items_by_id
    /\ item_slug_map' = self.attrs.item_slug_map
    /\ item_indices' = self.attrs.item_indices

(* no get_paginated is running *)
NoPager ==
    /\ pc = "none"
    /\ params_page = 0
    /\ has_more = FALSE
    /\ response = None
    /\ requested = <<>>
    /\ yielded = <<>>
    /\ headers = <<>>

Init ==
    /\ NoPager
    /\ container = "None"
    /\ items_by_id = None
    /\ item_slug_map = None
    /\ item_indices = None
    /\ inserted = <<>>
    /\ ret = NoCall
    /\ arg = None
    /\ out = Call("none", None, None, None)

(* cls.create(page): the first page of a paginated fetch *)
Create ==
    /\ ~Built
    /\ \E cls \in ContainerClasses :
      \E data \in SeqsUpTo(RawItems(cls), MaxPage) :
        LET self == ItemContainer_create(cls, data)
        IN  /\ IF IsRaise(self)
               THEN UNCHANGED cvars
               ELSE /\ Becomes(self)
                    /\ inserted' = [n \in 1..Len(data) |-> create_child(cls, data[n])]
            /\ ret' = Call("create", PyList(data), None,
                           IF IsRaise(self) THEN self ELSE None)
    /\ UNCHANGED <<arg, out, pvars>>

(* self.append(child) *)
DoAppend ==
    /\ Built
    /\ Size < MaxItems
    /\ \E child \in Children(container) :
         LET r == append(Self, child)
         IN  /\ Becomes(r.self)
             /\ inserted' = IF IsRaise(r.result) THEN inserted
                            ELSE Append(inserted, r.result)
             /\ ret' = Call("append", child, None, r.result)
    /\ UNCHANGED <<arg, out, pvars>>

(* self.extend(page): a later page of a paginated fetch *)
DoExtend ==
    /\ Built
    /\ \E children \in SeqsUpTo(RawItems(container), MaxPage) :
         LET r == extend(Self, children)
             done == Len(r.self.attrs.item_indices.l) - Size
         IN  /\ Size + Len(children) <= MaxItems
             /\ Becomes(r.self)
             /\ inserted' = inserted \o
                    [n \in 1..done |-> AsItem(container, children[n])]
             /\ ret' = Call("extend", PyList(children), None, r.result)
    /\ UNCHANGED <<arg, out, pvars>>

GetById ==
    /\ Built
    /\ \E id_ \in LookupKeys(container), default \in Defaults :
         ret' = Call("get_by_id", id_, default, get_by_id(Self, id_, default))
    /\ UNCHANGED <<cvars, arg, out, pvars>>

GetBySlug ==
    /\ Built
    /\ \E slug \in LookupSlugs, default \in Defaults :
         ret' = Call("get_by_slug", slug, default,
                     get_by_slug(Self, slug, default))
    /\ UNCHANGED <<cvars, arg, out, pvars>>

GetByIndex ==
    /\ Built
    /\ \E ix \in -1..MaxItems :
         ret' = Call("get_by_index", PyInt(ix), None, get_by_index(Self, ix))
    /\ UNCHANGED <<cvars, arg, out, pvars>>

(* self[key] on the list variant *)
ListGetItem ==
    /\ Built
    /\ IsSubclass(container, "ItemList")
    /\ \E key \in Positions :
         ret' = Call("getitem", key, None, ItemList_getitem(Self, key))
    /\ UNCHANGED <<cvars, arg, out, pvars>>

(* list(self) on the list variant *)
ListIter ==
    /\ Built
    /\ IsSubclass(container, "ItemList")
    /\ ret' = Call("iter", None, None, ItemList_iter(Self))
    /\ UNCHANGED <<cvars, arg, out, pvars>>

(* self[key] on the map variant *)
DictGetItem ==
    /\ Built
    /\ IsSubclass(container, "ItemDict")
    /\ \E key \in LookupKeys(container) :
         ret' = Call("getitem", key, None, ItemDict_getitem(Self, key))
    /\ UNCHANGED <<cvars, arg, out, pvars>>

(* list(self), and the three views, on the map variant *)
DictIter ==
    /\ Built
    /\ IsSubclass(container, "ItemDict")
    /\ \E op \in {"iter", "keys", "values", "items"} :
         ret' = Call(op, None, None,
                     CASE op = "iter" -> ItemDict_iter(Self)
                       [] op = "keys" -> ItemDict_keys(Self)
                       [] op = "values" -> ItemDict_values(Self)
                       [] op = "items" -> ItemDict_items(Self))
    /\ UNCHANGED <<cvars, arg, out, pvars>>

(* self.save_to_json(f) and then load_from_json(f) *)
SaveLoad ==
    /\ Built
    /\ LET text == to_json(Self)
       IN  ret' = Call("save_load", None, None,
                       IF IsRaise(text) THEN text ELSE load_from_json(text))
    /\ UNCHANGED <<cvars, arg, out, pvars>>

Next ==
    \/ Create
    \/ DoAppend
    \/ DoExtend
    \/ GetById
    \/ GetBySlug
    \/ GetByIndex
    \/ ListGetItem
    \/ ListIter
    \/ DictGetItem
    \/ DictIter
    \/ SaveLoad

Spec == Init /\ [][Next]_vars

----------------------------------------------------------------------------
(* The containers: properties *)

(* the three structures of a container agree *)
ContainerInvariant(self) ==
    /\ Len(self.attrs.item_indices.l) = DictLen(self.attrs.items_by_id)
    /\ DictLen(self.attrs.items_by_id) = DictLen(self.attrs.item_slug_map)
    /\ \A key \in SeqToSet(self.attrs.item_indices.l) :
         DictHas(self.attrs.items_by_id, key)
    /\ \A id_ \in SeqToSet(DictValues(self.attrs.item_slug_map)) :
         DictHas(self.attrs.items_by_id, id_)

(* C1: after create and any appends and extends, item_indices, items_by_id
   and item_slug_map have the same length, every key of item_indices is a
   key of items_by_id and every value of item_slug_map is a key of
   items_by_id *)
C1_ContainerInvariant == Built => ContainerInvariant(Self)

(* the slug of the record a child is inserted as *)
SlugOf(child) == AsItem(container, child).attrs["slug"]

(* C2: an append of a record whose slug is already in item_slug_map raises,
   and leaves items_by_id, item_slug_map and item_indices (and so the
   records held) as they were *)
C2_DuplicateSlugAppendFails ==
    [][(ret'.op = "append" /\ Built /\ DictHas(item_slug_map, SlugOf(ret'.a)))
          => (ret'.result = Raise("AssertionError") /\ UNCHANGED cvars)]_vars

(* an append of a new identity key with a slug already held has failed *)
C2_Witness ==
    /\ ret.op = "append"
    /\ ret.result = Raise("AssertionError")
    /\ Size >= 1
    /\ DictHas(item_slug_map, SlugOf(ret.a))
    /\ ~DictHas(items_by_id, _id_for_item(container, AsItem(container, ret.a)))

(* C3: a list container with integer identity keys, saved to JSON and
   loaded again, satisfies the container invariant and get_by_index gives a
   record of the same slug at every position *)
C3_SaveLoadKeepsSlugs ==
    (ret.op = "save_load" /\ container = "WpItems") =>
        /\ IsInstance(ret.result, "WpItems")
        /\ ContainerInvariant(ret.result)
        /\ Len(ret.result.attrs.item_indices.l) = Size
        /\ \A ix \in 0..(Size - 1) :
             LET old == get_by_index(Self, ix)
                 new == get_by_index(ret.result, ix)
             IN  /\ ~IsRaise(new)
                 /\ ~IsRaise(old) => new.attrs["slug"] = old.attrs["slug"]

(* C9: get_by_id of a key that is not held and get_by_slug of a slug that
   is not held return the default, get_by_slug of a slug that is held
   returns what get_by_id returns for the identity item_slug_map holds for
   it, and neither call changes the container *)
C9_Lookups ==
    /\ [](/\ (ret.op = "get_by_id" /\ ~DictHas(items_by_id, ret.a))
                 => ret.result = ret.b
          /\ (ret.op = "get_by_slug" /\ ~DictHas(item_slug_map, ret.a))
                 => ret.result = ret.b
          /\ (ret.op = "get_by_slug" /\ DictHas(item_slug_map, ret.a))
                 => /\ ret.result = DictGetDefault(
                           items_by_id, DictGet(item_slug_map, ret.a), ret.b)
                    /\ ret.result # ret.b)
    /\ [][ret'.op \in {"get_by_id", "get_by_slug"} => UNCHANGED cvars]_vars

(* both lookups have missed and returned a default that is not None, on a
   container that holds records *)
C9_Witness ==
    /\ Size >= 2
    /\ ret.op = "get_by_slug"
    /\ ~DictHas(item_slug_map, ret.a)
    /\ ret.b = PyStr("default")
    /\ ret.result = ret.b

(* C10: on a list container, container[i] is the (i+1)-th record inserted,
   container[a:b] the records inserted at positions a..b-1 in that order,
   and iteration yields all the records inserted, in that order *)
C10_ListOrder ==
    /\ (ret.op = "getitem" /\ ret.a.k = "int" /\ IsSubclass(container, "ItemList")
          /\ ret.a.i >= 0 /\ ret.a.i < Len(inserted))
         => ret.result = inserted[ret.a.i + 1]
    /\ (ret.op = "getitem" /\ ret.a.k = "slice" /\ IsSubclass(container, "ItemList"))
         => ret.result = PyList(ListSlice(inserted, ret.a.start, ret.a.stop))
    /\ (ret.op = "iter" /\ IsSubclass(container, "ItemList"))
         => ret.result = PyList(inserted)

(* C11: on a map container, iteration and values() give the records
   inserted, in the order of insertion, keys() gives item_indices, items()
   pairs the two, and container[key] for a key that is not held raises
   KeyError, where get_by_id returns a default *)
C11_DictOrder ==
    (Built /\ IsSubclass(container, "ItemDict")) =>
        /\ ret.op \in {"iter", "values"} => ret.result = PyList(inserted)
        /\ ret.op = "keys" => ret.result = item_indices
        /\ ret.op = "items"
             => ret.result = PyList([n \in 1..Len(inserted) |->
                                       <<item_indices.l[n], inserted[n]>>])
        /\ (ret.op = "getitem" /\ ~DictHas(items_by_id, ret.a))
             => ret.result = Raise("KeyError")
        /\ (ret.op = "getitem" /\ DictHas(items_by_id, ret.a))
             => ret.result = get_by_id(Self, ret.a, None)

(* a map container holding two records inserted against the order of their
   keys has been indexed by a key it does not hold *)
C11_Witness ==
    /\ Built
    /\ IsSubclass(container, "ItemDict")
    /\ item_indices = PyList(<<PyStr("b"), PyStr("a")>>)
    /\ ret.op = "getitem"
    /\ ret.a = PyStr("missing")
    /\ ret.result = Raise("KeyError")

----------------------------------------------------------------------------
(* The JsonHandler: the inputs *)

Hours == {0, 12, 23}

Minutes == {0, 30}

Seconds == {0, 59}

Days == {1, 2}

Microseconds == {0, 500000}

(* tzinfo: none, UTC, five hours behind, five and a half hours ahead *)
Tzinfos == {None, UTC, PyTz(-300), PyTz(330)}

Datetimes ==
    {PyDatetime(d, h, m, sec, us, tz) :
        d \in Days, h \in Hours, m \in Minutes, sec \in Seconds,
        us \in Microseconds, tz \in Tzinfos}

EnumMembers ==
    UNION {{PyEnum(cls, name) : name \in SeqToSet(Members(cls))} :
              cls \in EnumClasses}

(* a date as parse_wp_dt returns it *)
SampleDate(d) == PyDatetime(d, 12, 0, 0, 0, UTC)

SampleImageFile(name) ==
    PyObj("ImageFile", [size_name |-> PyStr(name), width |-> PyInt(640),
                        height |-> PyInt(480), file |-> Dotted(<<"a", "jpg">>),
                        mime_type |-> PyStr("image/jpeg"),
                        source_url |-> PyStr("url")])

SampleMediaDetails(full) ==
    PyObj("MediaDetails",
          [original |-> SampleImageFile("original"),
           sizes |-> IF full
                     THEN PyDict(<< <<PyStr("thumbnail"), SampleImageFile("thumbnail")>> >>)
                     ELSE EmptyDict])

(* the parameters of a sample record: its status, its dates, and whether
   its collections hold anything *)
SampleParams ==
    [status : SeqToSet(Members("Status")), day : Days, full : BOOLEAN]

(* the value of one field of a sample record that is no container *)
SampleField(f, p) ==
    CASE f \in {"_links", "_embedded", "yoast_head", "yoast_head_json"} -> EmptyDict
      [] f \in {"id", "count", "parent", "term_id", "author_id"} -> PyInt(1)
      [] f = "status" -> PyEnum("Status", p.status)
      [] f = "media_type" -> PyEnum("MediaType", "image")
      [] f \in {"pub_date", "last_modified"} -> SampleDate(p.day)
      [] f \in {"meta", "acf", "types", "taxonomy_names"} ->
           IF p.full THEN PyList(<<PyStr("category")>>) ELSE PyList(<<>>)
      [] f = "taxonomy_rels" ->
           IF p.full THEN PyDict(<< <<PyStr("category"), PyList(<<>>)>> >>)
           ELSE EmptyDict
      [] f = "media_details" -> SampleMediaDetails(p.full)
      [] f = "original" -> SampleImageFile("original")
      [] f = "sizes" -> SampleMediaDetails(p.full).attrs.sizes
      [] f = "hierarchical" -> PyBool(p.full)
      [] OTHER -> PyStr(f)

SampleRecord(cls, p) ==
    PyObj(cls, [f \in SeqToSet(Fields(cls)) |-> SampleField(f, p)])

(* a container of the class holding one record, or none *)
SampleContainer(cls, p) ==
    LET icls == IF cls = "PostList" THEN "Post"
                ELSE IF cls \in {"ItemDict", "Taxonomies"} THEN "Taxonomy"
                ELSE "WpItem"
        item == SampleRecord(icls, p)
        key == IF icls = "Taxonomy" THEN item.attrs["slug"] ELSE item.attrs["id"]
    IN  IF p.full
        THEN Container(cls, PyDict(<< <<key, item>> >>),
                       PyDict(<< <<item.attrs["slug"], key>> >>), PyList(<<key>>))
        ELSE Container(cls, EmptyDict, EmptyDict, PyList(<<>>))

(* instances of every JsonBase class *)
Samples(cls) ==
    IF IsSubclass(cls, "ItemContainer")
    THEN {SampleContainer(cls, p) : p \in SampleParams}
    ELSE {SampleRecord(cls, p) : p \in SampleParams}

Records == UNION {Samples(cls) : cls \in JsonBaseClasses}

(* values of the registered types *)
RegisteredValues == Records \cup EnumMembers \cup Datetimes

(* the tags tried on a class: its identifier, its name under another module
   and with no module, the identifier of another class, a name that is no
   class, and a tag that is no text *)
Tags(cls) ==
    {cls_to_str(PyClass(cls)), Dotted(<<"other", "module", cls>>), Dotted(<<cls>>),
     cls_to_str(PyClass(IF cls = "Author" THEN "WpItem" ELSE "Author")),
     Dotted(<<"nonexistent", "Type">>), PyInt(1)}

(* what decode is given besides encoded values: JSON objects with no tag,
   with tags that name nothing, with the tags of the enums and of datetime,
   and values that are no objects *)
PlainValues ==
    {PyDict(<< <<PyStr("foo"), PyStr("bar")>> >>),
     EmptyDict,
     PyDict(<< <<PyStr("__class__"), Dotted(<<"nonexistent", "Type">>)>>,
               <<PyStr("x"), PyInt(1)>> >>),
     PyDict(<< <<PyStr("__class__"), PyInt(1)>> >>),
     PyDict(<< <<PyStr("__class__"), Dotted(<<"enum", "EnumType">>)>>,
               <<PyStr("name"), PyStr("image")>>, <<PyStr("value"), PyInt(1)>> >>),
     PyDict(<< <<PyStr("__class__"), Dotted(<<"enum", "EnumType">>)>>,
               <<PyStr("name"), PyStr("draft")>>, <<PyStr("value"), PyInt(3)>> >>),
     PyDict(<< <<PyStr("__class__"), Dotted(<<"datetime", "datetime">>)>>,
               <<PyStr("value"), DateText(1, 12, 0, 0, "")>> >>),
     PyDict(<< <<PyStr("__class__"), Dotted(<<"datetime", "datetime">>)>> >>),
     PyList(<<PyStr("__class__")>>), PyList(<<>>), PyStr("text"), PyInt(1), None}

(* data with its type tag set *)
Tagged(data, tag) == DictSet(data, PyStr("__class__"), tag)

----------------------------------------------------------------------------
(* The JsonHandler: the state machine.  One call is made on one input:
   the initial states draw the input, the actions are the calls. *)

(* the serialized fields of the sample records, under the tags tried *)
TaggedData ==
    UNION {{Tagged(_serialize(x), tag) : tag \in Tags(x.cls)} : x \in Records}

CodecInit ==
    /\ NoPager
    /\ container = "None"
    /\ items_by_id = None
    /\ item_slug_map = None
    /\ item_indices = None
    /\ inserted = <<>>
    /\ ret = NoCall
    /\ arg \in RegisteredValues \cup PlainValues \cup TaggedData
                 \cup {PyClass(cls) : cls \in SeqToSet(iter_handled_classes)}
    /\ out = NoCall

Idle == out = NoCall

(* handler.encode(o) *)
Encode ==
    /\ Idle
    /\ arg.k # "class"
    /\ out' = Call("encode", None, None, encode(arg))
    /\ UNCHANGED <<cvars, ret, arg, pvars>>

(* handler.decode(d) *)
Decode ==
    /\ Idle
    /\ arg \in PlainValues \cup TaggedData
    /\ out' = Call("decode", None, None, decode(arg))
    /\ UNCHANGED <<cvars, ret, arg, pvars>>

(* handler.decode(handler.encode(x)) *)
RoundTrip ==
    /\ Idle
    /\ arg \in RegisteredValues
    /\ LET d == encode(arg)
       IN  out' = Call("roundtrip", d, None, IF IsRaise(d) THEN d ELSE decode(d))
    /\ UNCHANGED <<cvars, ret, arg, pvars>>

(* x.save_to_json(f) and then load_from_json(f) *)
JsonRoundTrip ==
    /\ Idle
    /\ arg \in Records
    /\ LET text == to_json(arg)
       IN  out' = Call("json_roundtrip", text, None,
                       IF IsRaise(text) THEN text ELSE load_from_json(text))
    /\ UNCHANGED <<cvars, ret, arg, pvars>>

(* handler.str_to_cls(handler.cls_to_str(cls)) *)
StrToCls ==
    /\ Idle
    /\ arg.k = "class"
    /\ out' = Call("str_to_cls", cls_to_str(arg), None, str_to_cls(cls_to_str(arg)))
    /\ UNCHANGED <<cvars, ret, arg, pvars>>

(* cls._deserialize(data, handler), on the serialized fields of a record
   with the fields of cls, whatever its tag *)
Deserialize ==
    /\ Idle
    /\ arg \in TaggedData
    /\ \E cls \in JsonBaseClasses :
         /\ DictKeySet(arg) = FieldKeys(cls) \cup {PyStr("__class__")}
         /\ out' = Call("_deserialize", PyClass(cls),
                        DictGet(arg, PyStr("__class__")), _deserialize(cls, arg))
    /\ UNCHANGED <<cvars, ret, arg, pvars>>

CodecNext ==
    \/ Encode
    \/ Decode
    \/ RoundTrip
    \/ JsonRoundTrip
    \/ StrToCls
    \/ Deserialize

CodecSpec == CodecInit /\ [][CodecNext]_vars

----------------------------------------------------------------------------
(* The JsonHandler: properties *)

(* a == b: datetimes are compared as instants, everything else field by
   field *)
ValueEq(a, b) ==
    IF a.k = "datetime" /\ b.k = "datetime" THEN DatetimeEq(a, b) ELSE a = b

(* C4: for a value of every registered type (a record of a JsonBase class,
   a member of Status or MediaType, an aware datetime), decode(encode(x)) is
   a value of the same type, equal to x in every field *)
C4_RoundTrip ==
    (out.op = "roundtrip" /\ (arg.k = "datetime" => arg.tzinfo # None))
        => ValueEq(out.result, arg)

(* the identifiers of the handled classes *)
HandledIds == {cls_to_str(PyClass(cls)) : cls \in SeqToSet(iter_handled_classes)}

(* C5: no two handled classes have the same identifier, so that
   str_to_cls(cls_to_str(T)) is T for each of them *)
C5_Injective ==
    out.op = "str_to_cls"
        => /\ out.result = arg
           /\ \A cls \in SeqToSet(iter_handled_classes) :
                cls_to_str(PyClass(cls)) = out.a => PyClass(cls) = arg

(* C6, as claimed: _deserialize on a class fails for every tag that is not
   the identifier of the class, and succeeds only for that identifier *)
C6_ExactTag ==
    (out.op = "_deserialize" /\ IsStr(out.b))
        => /\ out.b # cls_to_str(out.a) => IsRaise(out.result)
           /\ ~IsRaise(out.result) => out.b = cls_to_str(out.a)

(* C6, amended: _deserialize on a class fails for every tag whose last
   component is not the name of the class, with the assertion unless the
   decoding of a field raised before it; the module part of the tag is not
   compared, and a tag whose last component is the name of the class is
   treated as the identifier of the class would be *)
C6_LastComponent ==
    (out.op = "_deserialize" /\ IsStr(out.b))
        => LET cls == out.a.cls
               exact == _deserialize(cls, Tagged(arg, cls_to_str(out.a)))
           IN  /\ Last(out.b.parts) # cls
                    => /\ IsRaise(out.result)
                       /\ \/ out.result = Raise("AssertionError")
                          \/ out.result = exact
               /\ Last(out.b.parts) = cls => out.result = exact

(* a tag naming another module has been accepted *)
C6_Witness ==
    /\ out.op = "_deserialize"
    /\ IsStr(out.b)
    /\ out.b = Dotted(<<"other", "module", out.a.cls>>)
    /\ IsInstance(out.result, out.a.cls)

(* C7: an aware datetime of second precision, encoded and decoded, is a
   datetime in UTC at the same instant (the same fields when it was in UTC),
   and a naive datetime is never encoded: encode raises *)
C7_Timestamp ==
    /\ (out.op = "roundtrip" /\ arg.k = "datetime" /\ arg.tzinfo # None
          /\ arg.microsecond = 0)
         => /\ out.result.k = "datetime"
            /\ out.result.tzinfo = UTC
            /\ DatetimeEq(out.result, arg)
            /\ arg.tzinfo = UTC => out.result = arg
    /\ (out.op \in {"encode", "roundtrip"} /\ arg.k = "datetime"
          /\ arg.tzinfo = None)
         => out.result = Raise("AssertionError")

(* a datetime ahead of UTC just after midnight has come back on the day
   before *)
C7_Witness ==
    /\ out.op = "roundtrip"
    /\ arg.k = "datetime"
    /\ arg.tzinfo = PyTz(330)
    /\ arg.hour = 0
    /\ out.result.k = "datetime"
    /\ out.result.day = arg.day - 1
    /\ out.result.minute # arg.minute

(* C8: decode returns an object that has no type tag, or whose tag is the
   identifier of no handled class, as it is and raises nothing *)
C8_PassThrough ==
    (out.op = "decode" /\ IsDict(arg)
       /\ (DictHas(arg, PyStr("__class__"))
             => DictGet(arg, PyStr("__class__")) \notin HandledIds))
        => out.result = arg

(* an object tagged with a name that is no class has been decoded *)
C8_Witness ==
    /\ out.op = "decode"
    /\ IsDict(arg)
    /\ DictHas(arg, PyStr("__class__"))
    /\ DictGet(arg, PyStr("__class__")) = Dotted(<<"nonexistent", "Type">>)
    /\ DictHas(arg, PyStr("x"))
    /\ out.result = arg

----------------------------------------------------------------------------
(* The client: Client.get_terms over Client.get_paginated *)

MaxTotalPages == 3

(* Client.use_cache, as __init__ leaves it *)
use_cache == FALSE

(* the terms the endpoint serves: two of them share the id, and a page may
   repeat a term *)
ClientItems == {RawWpItem(1, "a"), RawWpItem(2, "b"), RawWpItem(1, "c")}

(* r.json() of one response *)
ClientPages == SeqsUpTo(ClientItems, MaxPage)

(* r.headers.get('X-WP-TotalPages'): None when the header is absent *)
TotalPagesHeaders == {None} \cup {PyInt(n) : n \in 0..MaxTotalPages}

(* data, r as self.get(path, return_response=True) returns them *)
Response(data, header) == [k |-> "response", data |-> data, header |-> header]

(* a header read as the number of pages that remain after this one *)
total_pages_remaining(r) == IF r.header = None THEN 1 ELSE r.header.i + 1

(* int(r.headers.get('X-WP-TotalPages', 1)) *)
total_pages(r) == IF r.header = None THEN 1 ELSE r.header.i

(* url in self.request_cache: the url carries no page number, so it is
   cached from the first response saved on *)
Cached == use_cache /\ requested # <<>>

(* get_terms has called get_paginated, which stands at the test of its loop
   with params['page'] = 1 and has_more = True *)
ClientInit ==
    /\ container = "None"
    /\ items_by_id = None
    /\ item_slug_map = None
    /\ item_indices = None
    /\ inserted = <<>>
    /\ ret = NoCall
    /\ arg = None
    /\ out = NoCall
    /\ pc = "get"
    /\ params_page = 1
    /\ has_more = TRUE
    /\ response = None
    /\ requested = <<>>
    /\ yielded = <<>>
    /\ headers = <<>>

(* data, r = self.get(path, return_response=True, ...): the request of page
   params['page'] fails in raise_for_status, or answers with a page and its
   headers; a cached url answers with the data alone, which does not unpack *)
Get ==
    /\ pc = "get"
    /\ has_more
    /\ requested' = Append(requested, params_page)
    /\ \/ /\ Cached
          /\ pc' = "raised"
          /\ ret' = Call("get", PyInt(params_page), None, Raise("ValueError"))
          /\ UNCHANGED response
       \/ /\ ~Cached
          /\ pc' = "raised"
          /\ ret' = Call("get", PyInt(params_page), None, Raise("HTTPError"))
          /\ UNCHANGED response
       \/ /\ ~Cached
          /\ \E data \in ClientPages, header \in TotalPagesHeaders :
               response' = Response(data, header)
          /\ pc' = "yield"
          /\ ret' = Call("get", PyInt(params_page), None, None)
    /\ UNCHANGED <<cvars, arg, out, params_page, has_more, yielded, headers>>

(* yield data, and the body of the loop of get_terms on the page: create for
   the first page, extend for the later ones; what either raises ends
   get_terms *)
Yield ==
    /\ pc = "yield"
    /\ yielded' = Append(yielded, response.data)
    /\ IF ~Built
       THEN LET self == ItemContainer_create("WpItems", response.data)
            IN  /\ IF IsRaise(self)
                   THEN UNCHANGED cvars
                   ELSE /\ Becomes(self)
                        /\ inserted' = [n \in 1..Len(response.data) |->
                                          create_child("WpItems", response.data[n])]
                /\ ret' = Call("create", PyList(response.data), None,
                               IF IsRaise(self) THEN self ELSE None)
                /\ pc' = IF IsRaise(self) THEN "raised" ELSE "resume"
       ELSE LET r == extend(Self, response.data)
                done == Len(r.self.attrs.item_indices.l) - Size
            IN  /\ Becomes(r.self)
                /\ inserted' = inserted \o
                       [n \in 1..done |-> AsItem(container, response.data[n])]
                /\ ret' = Call("extend", PyList(response.data), None, r.result)
                /\ pc' = IF IsRaise(r.result) THEN "raised" ELSE "resume"
    /\ UNCHANGED <<arg, out, params_page, has_more, response, requested, headers>>

(* get_paginated after the yield: has_more from the headers of the response,
   params['page'] += 1, and the test of the loop; get_terms returns when the
   generator is exhausted *)
Resume ==
    /\ pc = "resume"
    /\ headers' = Append(headers, response.header)
    /\ has_more' = (params_page < total_pages(response))
    /\ params_page' = params_page + 1
    /\ pc' = IF has_more' THEN "get" ELSE "done"
    /\ UNCHANGED <<cvars, ret, arg, out, response, requested, yielded>>

ClientNext ==
    \/ Get
    \/ Yield
    \/ Resume

ClientSpec == ClientInit /\ [][ClientNext]_vars

----------------------------------------------------------------------------
(* The client: properties *)

(* the records of the raw items of a page *)
PageRecords(page) == [n \in 1..Len(page) |-> create_child("WpItems", page[n])]

RECURSIVE AllRecords(_)

(* the records of a sequence of pages, page after page *)
AllRecords(pages) ==
    IF pages = <<>> THEN <<>>
    ELSE PageRecords(Head(pages)) \o AllRecords(Tail(pages))

RECURSIVE BeforeFailing(_, _)

(* the records of a page that come before its first record whose slug is
   among seen or earlier in the page *)
BeforeFailing(seen, records) ==
    IF records = <<>> \/ Head(records).attrs["slug"] \in seen THEN <<>>
    ELSE <<Head(records)>>
           \o BeforeFailing(seen \cup {Head(records).attrs["slug"]}, Tail(records))

(* the records the container holds, in its order; none before create *)
Held == IF Built THEN ItemList_iter(Self) ELSE PyList(<<>>)

(* the pages consumed whole before the step that failed *)
PagesBefore == SubSeq(yielded, 1, Len(requested) - 1)

(* what is to be held after a failure on page Len(requested): the earlier
   pages, and when the page was fetched its records before the failing one *)
Retained ==
    LET earlier == AllRecords(PagesBefore)
        slugs == {earlier[n].attrs["slug"] : n \in 1..Len(earlier)}
    IN  IF Len(yielded) < Len(requested) THEN earlier
        ELSE earlier \o BeforeFailing(slugs, PageRecords(Last(yielded)))

(* C12: when get_terms fails on page k, in the fetch or on a duplicate slug
   in the page, the container holds the records of pages 1..k-1 and those
   of page k before the failing one, in order, and its three structures
   agree *)
C12_PartialPages ==
    pc = "raised" =>
        /\ Held = PyList(Retained)
        /\ Built => ContainerInvariant(Self)

(* the total a response states: its X-WP-TotalPages header, 1 without it *)
StatedTotal(header) == IF header = None THEN 1 ELSE header.i

(* C13: get_paginated requests the pages 1, 2, ... in that order, yields
   each page fetched before it requests the next, stops right after the
   first page whose number is at least the total its response states (1
   when the header is absent) and not before, so that it yields exactly the
   pages 1..N when every response states the same total N >= 1; once
   stopped it requests nothing more *)
C13_Sequential ==
    /\ [](/\ requested = [n \in 1..Len(requested) |-> n]
          /\ Len(yielded) <= Len(requested)
          /\ Len(requested) <= Len(yielded) + 1
          /\ pc \in {"get", "resume", "done"} => Len(yielded) = Len(requested)
          /\ pc = "resume" => Last(yielded) = response.data
          /\ \A n \in 1..Len(headers) :
               (n < Len(requested) \/ pc = "get") => n < StatedTotal(headers[n])
          /\ pc = "done"
               => /\ Len(headers) = Len(requested)
                  /\ Len(requested) >= StatedTotal(Last(headers))
          /\ \A N \in 1..MaxTotalPages :
               (pc = "done" /\ \A n \in 1..Len(headers) : StatedTotal(headers[n]) = N)
                  => /\ requested = [n \in 1..N |-> n]
                     /\ Len(yielded) = N)
    /\ [][/\ requested' # requested
              => (pc = "get" /\ Len(yielded) = Len(requested)
                    /\ requested' = Append(requested, Len(requested) + 1))
          /\ yielded' # yielded
              => (pc = "yield" /\ yielded' = Append(yielded, response.data))
          /\ pc = "resume" => pc' \in {"resume", "get", "done"}
          /\ pc \in {"done", "raised"} => UNCHANGED vars]_vars

(* three pages, each stating a total of three, have been requested and
   yielded in order, and get_paginated has stopped *)
C13_Witness ==
    /\ pc = "done"
    /\ requested = <<1, 2, 3>>
    /\ Len(yielded) = 3
    /\ headers = <<PyInt(3), PyInt(3), PyInt(3)>>
    /\ Size >= 2

====
